---- MODULE Spec2Model ----
(***************************************************************************)
(* Model of the ASD screening backend: the scoring, interpretation and     *)
(* response-parsing helpers of src/routes/report.js, the report route      *)
(* built on them, and the LLM endpoints of the application server.         *)
(***************************************************************************)
EXTENDS Integers, Sequences, FiniteSets, TLC

(***************************************************************************)
(* Bounds of the model.                                                    *)
(***************************************************************************)
MaxTrials == 4
MaxReactionTrials == 3
MaxTokens == 4
MaxScore == 100
MaxReactionScore == 600
MaxChunks == 4
MaxUpdates == 2

(***************************************************************************)
(* JavaScript values.  An array argument is either undefined or an array;  *)
(* a number is an integer or NaN.  NaN compares false with everything.     *)
(***************************************************************************)
Undefined == [kind |-> "undefined", items |-> <<>>]

Arr(s) == [kind |-> "array", items |-> s]

NaN == [nan |-> TRUE, n |-> 0]

Num(i) == [nan |-> FALSE, n |-> i]

\* a >= b on JavaScript numbers
Ge(a, b) == ~a.nan /\ ~b.nan /\ a.n >= b.n

\* a <= b on JavaScript numbers
Le(a, b) == ~a.nan /\ ~b.nan /\ a.n <= b.n

RECURSIVE SeqsUpTo(_, _)
\* all sequences over S of length at most n
SeqsUpTo(S, n) ==
  IF n = 0 THEN {<<>>}
  ELSE LET shorter == SeqsUpTo(S, n - 1)
       IN shorter \cup {Append(s, x) : s \in {t \in shorter : Len(t) = n - 1}, x \in S}

RECURSIVE SumTimes(_)
\* validTimes.reduce((a, b) => a + b, 0)
SumTimes(s) == IF s = <<>> THEN 0 ELSE Head(s) + SumTimes(Tail(s))

\* Math.round(num / den) for num >= 0: the nearest integer, halves upwards;
\* 0 / 0 is NaN
MathRound(num, den) ==
  IF den = 0 THEN NaN ELSE Num((2 * num + den) \div (2 * den))

(***************************************************************************)
(* Scoring functions.                                                      *)
(***************************************************************************)
\* test => test.isCorrect
IsCorrect(test) == test.isCorrect

\* test => test.valid
IsValid(test) == test.valid

calculateEmotionScore(emotionTest) ==
  IF emotionTest.kind = "undefined" \/ Len(emotionTest.items) = 0 THEN Num(0)
  ELSE LET correct == Len(SelectSeq(emotionTest.items, IsCorrect))
       IN MathRound(correct * 100, Len(emotionTest.items))

\* the filter on valid left out
calculateReactionScoreUnfiltered(reactionTest) ==
  IF reactionTest.kind = "undefined" \/ Len(reactionTest.items) = 0 THEN Num(0)
  ELSE LET validTimes == [i \in 1..Len(reactionTest.items) |->
                            reactionTest.items[i].reactionTime]
       IN MathRound(SumTimes(validTimes), Len(validTimes))

\* 0 returned when the filter leaves no trial
calculateReactionScoreGuarded(reactionTest) ==
  IF reactionTest.kind = "undefined" \/ Len(reactionTest.items) = 0 THEN Num(0)
  ELSE LET valid == SelectSeq(reactionTest.items, IsValid)
           validTimes == [i \in 1..Len(valid) |-> valid[i].reactionTime]
       IN IF Len(valid) = 0 THEN Num(0)
          ELSE MathRound(SumTimes(validTimes), Len(validTimes))

calculateReactionScore(reactionTest) ==
  IF reactionTest.kind = "undefined" \/ Len(reactionTest.items) = 0 THEN Num(0)
  ELSE LET valid == SelectSeq(reactionTest.items, IsValid)
           validTimes == [i \in 1..Len(valid) |-> valid[i].reactionTime]
       IN MathRound(SumTimes(validTimes), Len(validTimes))

\* Math.floor in place of Math.round
calculatePatternScoreFloor(patternTest) ==
  IF patternTest.kind = "undefined" \/ Len(patternTest.items) = 0 THEN Num(0)
  ELSE LET correct == Len(SelectSeq(patternTest.items, IsCorrect))
       IN Num((correct * 100) \div Len(patternTest.items))

calculatePatternScore(patternTest) ==
  IF patternTest.kind = "undefined" \/ Len(patternTest.items) = 0 THEN Num(0)
  ELSE LET correct == Len(SelectSeq(patternTest.items, IsCorrect))
       IN MathRound(correct * 100, Len(patternTest.items))

(***************************************************************************)
(* Interpretation functions.                                               *)
(***************************************************************************)
\* the first threshold exclusive
interpretEmotionScoreExclusive(score) ==
  IF ~score.nan /\ score.n > 80 THEN "Strong emotion recognition abilities"
  ELSE IF Ge(score, Num(60)) THEN "Moderate emotion recognition abilities"
  ELSE "Difficulty with emotion recognition, further assessment recommended"

interpretEmotionScore(score) ==
  IF Ge(score, Num(80)) THEN "Strong emotion recognition abilities"
  ELSE IF Ge(score, Num(60)) THEN "Moderate emotion recognition abilities"
  ELSE "Difficulty with emotion recognition, further assessment recommended"

interpretReactionScore(score) ==
  IF Le(score, Num(300)) THEN "Quick reaction time, within typical range"
  ELSE IF Le(score, Num(500)) THEN "Moderate reaction time"
  ELSE "Delayed reaction time, may indicate attention processing differences"

interpretPatternScore(score) ==
  IF Ge(score, Num(80)) THEN "Strong pattern recognition and memory abilities"
  ELSE IF Ge(score, Num(60)) THEN "Moderate pattern recognition abilities"
  ELSE "Difficulty with pattern recognition, further assessment recommended"


(***************************************************************************)
(* Response parser.  A text is a sequence of tokens: "H1".."H6" stand for  *)
(* a match of the heading pattern (a digit, a dot, white space and one of  *)
(* the six literal headings, in any letter case), "NL" for a line break,   *)
(* "SP" for other white space, "obs", "rec" and "flag" for a word whose    *)
(* lower-cased text contains 'observation', 'recommend' or 'red flag',     *)
(* and "w1", "w2" for any other word.  A completion content is a string or *)
(* null.                                                                   *)
(***************************************************************************)
Headings == {"H1", "H2", "H3", "H4", "H5", "H6"}

WhiteSpace == {"NL", "SP"}

Str(toks) == [kind |-> "string", toks |-> toks]

Null == [kind |-> "null", toks |-> <<>>]

RECURSIVE SplitAt(_, _)
\* String.prototype.split on a separator matching exactly the tokens of seps
SplitAt(s, seps) ==
  IF \A i \in 1..Len(s) : s[i] \notin seps THEN <<s>>
  ELSE LET k == CHOOSE i \in 1..Len(s) :
                  s[i] \in seps /\ \A j \in 1..(i - 1) : s[j] \notin seps
       IN <<SubSeq(s, 1, k - 1)>> \o SplitAt(SubSeq(s, k + 1, Len(s)), seps)

RECURSIVE TrimStart(_)
TrimStart(s) ==
  IF s # <<>> /\ Head(s) \in WhiteSpace THEN TrimStart(Tail(s)) ELSE s

RECURSIVE TrimEnd(_)
TrimEnd(s) ==
  IF s # <<>> /\ s[Len(s)] \in WhiteSpace THEN TrimEnd(SubSeq(s, 1, Len(s) - 1))
  ELSE s

\* String.prototype.trim
Trim(s) == TrimEnd(TrimStart(s))

\* section => section.trim(), line => line.trim(): a non-empty string is truthy
NonBlank(s) == Trim(s) # <<>>

\* sectionContent.toLowerCase().includes(keyword)
Includes(s, keyword) == \E i \in 1..Len(s) : s[i] = keyword

\* sectionContent.split('\n').filter(line => line.trim()), each line trimmed
Points(sectionContent) ==
  LET lines == SelectSeq(SplitAt(sectionContent, {"NL"}), NonBlank)
  IN [i \in 1..Len(lines) |-> Trim(lines[i])]

\* the positional fallback counted from the first fragment
ClassifyFromZero(sectionContent, index) ==
  IF Includes(sectionContent, "obs") \/ index = 0 THEN "observations"
  ELSE IF Includes(sectionContent, "rec") \/ index = 3 THEN "recommendations"
  ELSE IF Includes(sectionContent, "flag") \/ index = 2 THEN "redFlags"
  ELSE "none"

\* the positional fallback counted from one
ClassifyFromOne(sectionContent, index) ==
  IF Includes(sectionContent, "obs") \/ index = 2 THEN "observations"
  ELSE IF Includes(sectionContent, "rec") \/ index = 5 THEN "recommendations"
  ELSE IF Includes(sectionContent, "flag") \/ index = 4 THEN "redFlags"
  ELSE "none"

\* the three keyword tests ahead of the three index tests
ClassifyKeywordsFirst(sectionContent, index) ==
  IF Includes(sectionContent, "obs") THEN "observations"
  ELSE IF Includes(sectionContent, "rec") THEN "recommendations"
  ELSE IF Includes(sectionContent, "flag") THEN "redFlags"
  ELSE IF index = 1 THEN "observations"
  ELSE IF index = 4 THEN "recommendations"
  ELSE IF index = 3 THEN "redFlags"
  ELSE "none"

\* the class the forEach callback gives the fragment at (0-based) index
Classify(sectionContent, index) ==
  IF Includes(sectionContent, "obs") \/ index = 1 THEN "observations"
  ELSE IF Includes(sectionContent, "rec") \/ index = 4 THEN "recommendations"
  ELSE IF Includes(sectionContent, "flag") \/ index = 3 THEN "redFlags"
  ELSE "none"

\* one call of the forEach callback on the lists collected so far
ParseSection(acc, section, index) ==
  LET sectionContent == Trim(section)
      points == Points(sectionContent)
      class == Classify(sectionContent, index)
  IN IF class = "observations"
     THEN [acc EXCEPT !.observations =
             @ \o [i \in 1..Len(points) |->
                     [category |-> "Clinical Observation", details |-> points[i]]]]
     ELSE IF class = "recommendations"
     THEN [acc EXCEPT !.recommendations = @ \o points]
     ELSE IF class = "redFlags"
     THEN [acc EXCEPT !.redFlags = points]
     ELSE acc

RECURSIVE ForEachSection(_, _, _)
\* cleanSections.forEach((section, index) => ...) from position index on
ForEachSection(cleanSections, index, acc) ==
  IF index >= Len(cleanSections) THEN acc
  ELSE ForEachSection(cleanSections, index + 1,
                      ParseSection(acc, cleanSections[index + 1], index))

\* content.split(<heading pattern>).filter(section => section.trim())
CleanSections(toks) == SelectSeq(SplitAt(toks, Headings), NonBlank)

\* the result, or raised = TRUE when content.split throws a TypeError
parseGeneratedReport(content) ==
  IF content.kind # "string"
  THEN [raised |-> TRUE, observations |-> <<>>, recommendations |-> <<>>,
        redFlags |-> <<>>]
  ELSE ForEachSection(CleanSections(content.toks), 0,
         [raised |-> FALSE, observations |-> <<>>, recommendations |-> <<>>,
          redFlags |-> <<>>])


(***************************************************************************)
(* Inputs of the helper functions.                                         *)
(***************************************************************************)
\* emotionTest / patternTest: undefined, or an array of {isCorrect}
TrialArrays ==
  {Undefined} \cup {Arr(s) : s \in SeqsUpTo([isCorrect : BOOLEAN], MaxTrials)}

ReactionTimes == {200, 250, 300, 400, 600, 9999}

\* reactionTest: undefined, or an array of {valid, reactionTime}
ReactionArrays ==
  {Undefined} \cup
  {Arr(s) : s \in SeqsUpTo([valid : BOOLEAN, reactionTime : ReactionTimes],
                           MaxReactionTrials)}

FreeTokens == {"H4", "H5", "NL", "SP", "obs", "rec", "flag", "w1"}

\* any short text
FreeTexts == SeqsUpTo(FreeTokens, MaxTokens)

\* bodies of a section: lines of words behind the heading
Bodies ==
  { <<"NL", "w1", "NL">>,
    <<"NL", "w2", "NL", "SP", "w1", "NL">>,
    <<"SP", "obs", "w1", "NL">>,
    <<"NL", "rec", "w2", "NL">>,
    <<"NL", "flag", "NL", "w2">> }

\* the six numbered headings in the order the prompt asks for, each followed
\* by a non-blank body
SixSections(b) ==
  <<"H1">> \o b[1] \o <<"H2">> \o b[2] \o <<"H3">> \o b[3] \o
  <<"H4">> \o b[4] \o <<"H5">> \o b[5] \o <<"H6">> \o b[6]

WellFormedTexts == {SixSections(b) : b \in [1..6 -> Bodies]}

(***************************************************************************)
(* State.  call/ret: one call of a helper function and what it returned.   *)
(***************************************************************************)
VARIABLES call, ret

(***************************************************************************)
(* req: the HTTP request being handled; apiKey: whether OPENAI_API_KEY is  *)
(* set in the process environment; pc: where its handling stands; scores:  *)
(* the scores computed for it; res: the response; upstream: the state of   *)
(* the completion request to the LLM service; upstreamCalls: the number of *)
(* completion requests issued for the request.                             *)
(***************************************************************************)
VARIABLES req, apiKey, pc, scores, res, upstream, upstreamCalls

(***************************************************************************)
(* The real-time channel.  connected: each socket is "new", "connected" or *)
(* "disconnected"; rooms: the session ids whose room `session_<id>` the    *)
(* socket is in; inbox: the session:updated events delivered to the        *)
(* socket; relayed: the number of session:update events that have arrived; *)
(* joined: the session ids each socket has sent session:start for and has  *)
(* not since sent session:end for or disconnected with.                    *)
(***************************************************************************)
VARIABLES connected, rooms, inbox, relayed, joined

fnVars == <<call, ret>>

relayVars == <<connected, rooms, inbox, relayed, joined>>

httpVars == <<req, apiKey, pc, scores, res, upstream, upstreamCalls>>

vars ==
  <<call, ret, req, apiKey, pc, scores, res, upstream, upstreamCalls, connected,
    rooms, inbox, relayed, joined>>

Pending == [done |-> FALSE]

Returned(v) == [done |-> TRUE, val |-> v]

NoCall == [fn |-> "none"]

FnIdle == call = NoCall /\ ret = Pending

NoRequest == [endpoint |-> "none"]

NoScores == [computed |-> FALSE]

NoUpstream == [state |-> "none"]

\* writes: the chunks written with res.write; writeAfterEnd: whether one of
\* them was written after res.end
NoResponse ==
  [sent |-> FALSE, ended |-> FALSE, writes |-> <<>>, writeAfterEnd |-> FALSE]

\* res.status(status).json(json): the response is sent and ended
Json(status, json) ==
  [sent |-> TRUE, ended |-> TRUE, writes |-> <<>>, writeAfterEnd |-> FALSE,
   status |-> status, json |-> json]

\* res.write(chunk)
Write(r, chunk) ==
  [sent |-> TRUE, ended |-> r.ended, writes |-> Append(r.writes, chunk),
   writeAfterEnd |-> r.writeAfterEnd \/ r.ended, status |-> 200]

\* res.end()
End(r) ==
  [sent |-> TRUE, ended |-> TRUE, writes |-> r.writes,
   writeAfterEnd |-> r.writeAfterEnd, status |-> 200]

\* why a completion request fails
FailureCauses == {"quota", "network", "non-2xx"}

Sockets == {"s1", "s2", "s3"}

SessionIds == {"a", "b"}

RelayIdle ==
  /\ connected = [x \in Sockets |-> "new"]
  /\ rooms = [x \in Sockets |-> {}]
  /\ inbox = [x \in Sockets |-> <<>>]
  /\ relayed = 0
  /\ joined = [x \in Sockets |-> {}]

HttpIdle ==
  /\ req = NoRequest
  /\ apiKey = TRUE
  /\ pc = "idle"
  /\ scores = NoScores
  /\ res = NoResponse
  /\ upstream = NoUpstream
  /\ upstreamCalls = 0

InitFn ==
  /\ HttpIdle
  /\ RelayIdle
  /\ ret = Pending
  /\ \/ \E t \in TrialArrays : call = [fn |-> "calculateEmotionScore", arg |-> t]
     \/ \E t \in TrialArrays : call = [fn |-> "calculatePatternScore", arg |-> t]
     \/ \E t \in ReactionArrays : call = [fn |-> "calculateReactionScore", arg |-> t]
     \/ \E n \in 0..MaxScore : call = [fn |-> "interpretEmotionScore", arg |-> Num(n)]
     \/ \E n \in 0..MaxScore : call = [fn |-> "interpretPatternScore", arg |-> Num(n)]
     \/ \E n \in 0..MaxReactionScore :
          call = [fn |-> "interpretReactionScore", arg |-> Num(n)]
     \/ call = [fn |-> "interpretReactionScore", arg |-> NaN]
     \/ \E t \in FreeTexts \cup WellFormedTexts :
          call = [fn |-> "parseGeneratedReport", arg |-> Str(t)]
     \/ call = [fn |-> "parseGeneratedReport", arg |-> Null]

Apply(fn, v) ==
  /\ call.fn = fn
  /\ ~ret.done
  /\ ret' = Returned(v)
  /\ UNCHANGED <<call, httpVars, relayVars>>

CalculateEmotionScore ==
  Apply("calculateEmotionScore", calculateEmotionScore(call.arg))

CalculateReactionScore ==
  Apply("calculateReactionScore", calculateReactionScore(call.arg))

CalculatePatternScore ==
  Apply("calculatePatternScore", calculatePatternScore(call.arg))

InterpretEmotionScore ==
  Apply("interpretEmotionScore", interpretEmotionScore(call.arg))

InterpretReactionScore ==
  Apply("interpretReactionScore", interpretReactionScore(call.arg))

InterpretPatternScore ==
  Apply("interpretPatternScore", interpretPatternScore(call.arg))

ParseGeneratedReport ==
  Apply("parseGeneratedReport", parseGeneratedReport(call.arg))

NextFn ==
  \/ CalculateEmotionScore
  \/ CalculateReactionScore
  \/ CalculatePatternScore
  \/ InterpretEmotionScore
  \/ InterpretReactionScore
  \/ InterpretPatternScore
  \/ ParseGeneratedReport

SpecFn == InitFn /\ [][NextFn]_vars


(***************************************************************************)
(* POST /api/generate-report (src/routes/report.js).  Field values of      *)
(* patientInfo are written as their JSON text; "undefined" is an absent    *)
(* field, "" and "0" are the falsy values present.                         *)
(***************************************************************************)
ReportEndpoint == "/api/generate-report"

\* !value on a field value
Falsy(v) == v \in {"undefined", "", "0"}

NoPatientInfo ==
  [kind |-> "undefined", id |-> "undefined", name |-> "undefined",
   age |-> "undefined", gender |-> "undefined"]

PatientInfos ==
  {NoPatientInfo} \cup
  [kind : {"object"}, id : {"undefined", "p1"}, name : {"undefined", "", "Alex"},
   age : {"undefined", "0", "8"}, gender : {"undefined", "male"}]

NoTestResults ==
  [kind |-> "undefined", emotionTest |-> Undefined, reactionTest |-> Undefined,
   patternTest |-> Undefined]

Correct(n, of) == [i \in 1..of |-> [isCorrect |-> i <= n]]

TestResultSets ==
  { NoTestResults,
    [kind |-> "object", emotionTest |-> Undefined, reactionTest |-> Undefined,
     patternTest |-> Undefined],
    [kind |-> "object", emotionTest |-> Arr(Correct(3, 4)),
     reactionTest |-> Arr(<<[valid |-> TRUE, reactionTime |-> 250],
                            [valid |-> TRUE, reactionTime |-> 300],
                            [valid |-> TRUE, reactionTime |-> 600]>>),
     patternTest |-> Arr(Correct(4, 5))],
    [kind |-> "object", emotionTest |-> Arr(Correct(1, 2)),
     reactionTest |-> Arr(<<[valid |-> FALSE, reactionTime |-> 9999]>>),
     patternTest |-> Arr(<<>>)] }

\* what the completion's choices[0].message.content can be
CompletionContents ==
  { Null, Str(<<>>), Str(<<"w1", "NL", "obs">>),
    Str(<<"H4", "NL", "flag", "H5", "rec">>),
    Str(SixSections([k \in 1..6 |-> <<"NL", "w1", "NL">>])) }

\* the error message of the 400 response, or "next"
validateReportData(body) ==
  IF body.testResults.kind = "undefined" \/ body.patientInfo.kind = "undefined"
  THEN "Missing required data"
  ELSE IF Falsy(body.patientInfo.id) \/ Falsy(body.patientInfo.name)
          \/ Falsy(body.patientInfo.age)
  THEN "Invalid patient information"
  ELSE "next"

InitReport ==
  /\ FnIdle
  /\ RelayIdle
  /\ \E a \in BOOLEAN, t \in TestResultSets, p \in PatientInfos :
       req = [endpoint |-> ReportEndpoint, authorized |-> a,
              body |-> [testResults |-> t, patientInfo |-> p]]
  /\ apiKey = TRUE
  /\ pc = "validateToken"
  /\ scores = NoScores
  /\ res = NoResponse
  /\ upstream = NoUpstream
  /\ upstreamCalls = 0

\* the authentication gate in front of every handler: lets the request
\* through or answers it as unauthorized
ValidateToken ==
  /\ pc = "validateToken"
  /\ IF req.authorized
     THEN /\ pc' = IF req.endpoint = ReportEndpoint THEN "validateReportData"
                   ELSE "handler"
          /\ UNCHANGED res
     ELSE /\ pc' = "done"
          /\ res' = Json(401, [error |-> "Unauthorized"])
  /\ UNCHANGED <<fnVars, relayVars, req, apiKey, scores, upstream, upstreamCalls>>

ValidateReportData ==
  /\ pc = "validateReportData"
  /\ req.endpoint = ReportEndpoint
  /\ LET verdict == validateReportData(req.body)
     IN IF verdict = "next"
        THEN pc' = "handler" /\ UNCHANGED res
        ELSE pc' = "done" /\ res' = Json(400, [error |-> verdict])
  /\ UNCHANGED <<fnVars, relayVars, req, apiKey, scores, upstream, upstreamCalls>>

\* the handler up to its await: scores, prompt, completion request
GenerateReport ==
  /\ pc = "handler"
  /\ req.endpoint = ReportEndpoint
  /\ scores' = [computed |-> TRUE,
                emotionScore |-> calculateEmotionScore(req.body.testResults.emotionTest),
                reactionScore |-> calculateReactionScore(req.body.testResults.reactionTest),
                patternScore |-> calculatePatternScore(req.body.testResults.patternTest)]
  /\ upstream' = [state |-> "pending"]
  /\ upstreamCalls' = upstreamCalls + 1
  /\ pc' = "await"
  /\ UNCHANGED <<fnVars, relayVars, req, apiKey, res>>

\* the reaction interpretation taken from the emotion score
ReportCrossed(patientInfo, sc, generatedReport) ==
  [patientInfo |-> patientInfo,
   scores |-> [emotionScore |-> sc.emotionScore, reactionScore |-> sc.reactionScore,
               patternScore |-> sc.patternScore],
   observations |-> generatedReport.observations,
   interpretations |->
     [emotionTest |-> interpretEmotionScore(sc.emotionScore),
      reactionTest |-> interpretReactionScore(sc.emotionScore),
      patternTest |-> interpretPatternScore(sc.patternScore)],
   recommendations |-> generatedReport.recommendations,
   redFlags |-> generatedReport.redFlags,
   timestamp |-> "now"]

\* the report assembled from the parsed completion
Report(patientInfo, sc, generatedReport) ==
  [patientInfo |-> patientInfo,
   scores |-> [emotionScore |-> sc.emotionScore, reactionScore |-> sc.reactionScore,
               patternScore |-> sc.patternScore],
   observations |-> generatedReport.observations,
   interpretations |->
     [emotionTest |-> interpretEmotionScore(sc.emotionScore),
      reactionTest |-> interpretReactionScore(sc.reactionScore),
      patternTest |-> interpretPatternScore(sc.patternScore)],
   recommendations |-> generatedReport.recommendations,
   redFlags |-> generatedReport.redFlags,
   timestamp |-> "now"]

\* the catch block of the handler
ReportFailed == Json(500, [error |-> "Failed to generate report"])

\* the completion request resolves: parse, assemble, respond
CompletionResolves ==
  /\ pc = "await"
  /\ req.endpoint = ReportEndpoint
  /\ \E content \in CompletionContents :
       LET generatedReport == parseGeneratedReport(content)
       IN /\ upstream' = [state |-> "resolved", content |-> content]
          /\ res' = IF generatedReport.raised THEN ReportFailed
                    ELSE Json(200, [report |->
                           Report(req.body.patientInfo, scores, generatedReport)])
  /\ pc' = "done"
  /\ UNCHANGED <<fnVars, relayVars, req, apiKey, scores, upstreamCalls>>

\* the rejection thrown again out of the handler
CompletionRejectsRethrown ==
  /\ pc = "await"
  /\ req.endpoint = ReportEndpoint
  /\ \E cause \in FailureCauses : upstream' = [state |-> "rejected", cause |-> cause]
  /\ pc' = "rejected"
  /\ UNCHANGED <<fnVars, relayVars, req, apiKey, scores, res, upstreamCalls>>

\* the completion request fails (network, quota, non-2xx)
CompletionRejects ==
  /\ pc = "await"
  /\ req.endpoint = ReportEndpoint
  /\ \E cause \in FailureCauses : upstream' = [state |-> "rejected", cause |-> cause]
  /\ res' = ReportFailed
  /\ pc' = "done"
  /\ UNCHANGED <<fnVars, relayVars, req, apiKey, scores, upstreamCalls>>

NextReport ==
  \/ ValidateToken
  \/ ValidateReportData
  \/ GenerateReport
  \/ CompletionResolves
  \/ CompletionRejects

SpecReport == InitReport /\ [][NextReport]_vars

(***************************************************************************)
(* The JSON endpoints /api/llm/analyze, /api/llm/generate-report,          *)
(* /api/llm/project-development and /api/llm/explain.  body.payload is the *)
(* field of the request body the handler works on (context, sessionData,   *)
(* testData, analysisData): "undefined" when absent, "object" otherwise.   *)
(***************************************************************************)
LlmEndpoints ==
  {"/api/llm/analyze", "/api/llm/generate-report", "/api/llm/project-development",
   "/api/llm/explain"}

\* the field of the response that carries the result
ResultField(endpoint) ==
  CASE endpoint = "/api/llm/analyze" -> "analysis"
    [] endpoint = "/api/llm/generate-report" -> "report"
    [] endpoint = "/api/llm/project-development" -> "projection"
    [] endpoint = "/api/llm/explain" -> "explainability"

\* the local computation behind each endpoint
FallbackFunction(endpoint) ==
  CASE endpoint = "/api/llm/analyze" -> "processMultimodalData"
    [] endpoint = "/api/llm/generate-report" -> "generateClinicalReport"
    [] endpoint = "/api/llm/project-development" -> "generateDevelopmentalProjection"
    [] endpoint = "/api/llm/explain" -> "generateExplainabilityData"

\* processMultimodalData, generateClinicalReport and
\* generateDevelopmentalProjection read a property of their first argument and
\* throw a TypeError when it is undefined; generateExplainabilityData does not
\* read its argument
FallbackThrows(endpoint, payload) ==
  payload = "undefined" /\ endpoint # "/api/llm/explain"

\* the response of the branch taken when no API key is configured
MockResponse(endpoint) ==
  Json(200, [success |-> TRUE, field |-> ResultField(endpoint),
             from |-> FallbackFunction(endpoint)])

\* the response of the handler's catch block: the fallback on payload || {}
FallbackResponse(endpoint) ==
  Json(200, [success |-> TRUE, field |-> ResultField(endpoint),
             from |-> FallbackFunction(endpoint),
             error |-> "LLM service unavailable, using fallback"])

\* the response built from the completion text aiResponse
LlmResponse(endpoint, from, aiResponse) ==
  Json(200, [success |-> TRUE, field |-> ResultField(endpoint), from |-> from,
             aiResponse |-> aiResponse])

\* what the handler does with a completion: "json" is a text JSON.parse
\* accepts, "text" one it rejects, "malformed" a response without choices
AfterCompletion(endpoint, payload, outcome) ==
  IF outcome = "malformed" THEN FallbackResponse(endpoint)
  ELSE IF endpoint = "/api/llm/generate-report"
  THEN IF payload = "undefined" THEN FallbackResponse(endpoint)
       ELSE LlmResponse(endpoint, IF outcome = "json" THEN "JSON.parse" ELSE "structured",
                        outcome)
  ELSE IF outcome = "json" THEN LlmResponse(endpoint, "JSON.parse", outcome)
  ELSE IF endpoint = "/api/llm/analyze" THEN LlmResponse(endpoint, "structured", outcome)
  ELSE IF FallbackThrows(endpoint, payload) THEN FallbackResponse(endpoint)
  ELSE LlmResponse(endpoint, FallbackFunction(endpoint), outcome)

InitLlm ==
  /\ FnIdle
  /\ RelayIdle
  /\ \E e \in LlmEndpoints, a \in BOOLEAN, p \in {"undefined", "object"} :
       req = [endpoint |-> e, authorized |-> a, body |-> [payload |-> p]]
  /\ apiKey \in BOOLEAN
  /\ pc = "validateToken"
  /\ scores = NoScores
  /\ res = NoResponse
  /\ upstream = NoUpstream
  /\ upstreamCalls = 0

\* the handler up to its first await on the LLM service
LlmHandler ==
  /\ pc = "handler"
  /\ req.endpoint \in LlmEndpoints
  /\ IF ~apiKey
     THEN /\ res' = IF FallbackThrows(req.endpoint, req.body.payload)
                    THEN FallbackResponse(req.endpoint)
                    ELSE MockResponse(req.endpoint)
          /\ pc' = "done"
          /\ UNCHANGED <<upstream, upstreamCalls>>
     ELSE /\ upstream' = [state |-> "pending"]
          /\ upstreamCalls' = upstreamCalls + 1
          /\ pc' = "await"
          /\ UNCHANGED res
  /\ UNCHANGED <<fnVars, relayVars, req, apiKey, scores>>

\* createChatCompletion resolves and the handler answers
LlmResolves ==
  /\ pc = "await"
  /\ req.endpoint \in LlmEndpoints
  /\ \E outcome \in {"json", "text", "malformed"} :
       /\ upstream' = [state |-> "resolved", content |-> outcome]
       /\ res' = AfterCompletion(req.endpoint, req.body.payload, outcome)
  /\ pc' = "done"
  /\ UNCHANGED <<fnVars, relayVars, req, apiKey, scores, upstreamCalls>>

\* the completion request issued again after a rejection
LlmRejectsRetrying ==
  /\ pc = "await"
  /\ req.endpoint \in LlmEndpoints
  /\ IF upstreamCalls < 2
     THEN /\ upstream' = [state |-> "pending"]
          /\ upstreamCalls' = upstreamCalls + 1
          /\ UNCHANGED <<pc, res>>
     ELSE /\ \E cause \in FailureCauses :
               upstream' = [state |-> "rejected", cause |-> cause]
          /\ res' = FallbackResponse(req.endpoint)
          /\ pc' = "done"
          /\ UNCHANGED upstreamCalls
  /\ UNCHANGED <<fnVars, relayVars, req, apiKey, scores>>

\* createChatCompletion rejects and the catch block answers
LlmRejects ==
  /\ pc = "await"
  /\ req.endpoint \in LlmEndpoints
  /\ \E cause \in FailureCauses : upstream' = [state |-> "rejected", cause |-> cause]
  /\ res' = FallbackResponse(req.endpoint)
  /\ pc' = "done"
  /\ UNCHANGED <<fnVars, relayVars, req, apiKey, scores, upstreamCalls>>

NextLlm ==
  \/ ValidateToken
  \/ LlmHandler
  \/ LlmResolves
  \/ LlmRejects

SpecLlm == InitLlm /\ [][NextLlm]_vars

(***************************************************************************)
(* POST /api/llm/stream.  The handler starts streamAnalysis without        *)
(* awaiting it; body.payload is the context field.                         *)
(***************************************************************************)
StreamEndpoint == "/api/llm/stream"

InitStream ==
  /\ FnIdle
  /\ RelayIdle
  /\ \E a \in BOOLEAN, p \in {"undefined", "object"} :
       req = [endpoint |-> StreamEndpoint, authorized |-> a, body |-> [payload |-> p]]
  /\ apiKey \in BOOLEAN
  /\ pc = "validateToken"
  /\ scores = NoScores
  /\ res = NoResponse
  /\ upstream = NoUpstream
  /\ upstreamCalls = 0

\* the catch block of streamAnalysis: processMultimodalData(context) throws
\* again when context is undefined and the promise of streamAnalysis, which
\* nobody awaits, is rejected; otherwise one chunk is written and the response
\* ended
StreamCatch(r, payload) ==
  IF payload = "undefined" THEN r ELSE End(Write(r, "streamFailed"))

StreamCatchPc(payload) == IF payload = "undefined" THEN "rejected" ELSE "done"

\* the handler and streamAnalysis up to its first await or timer
StreamHandler ==
  /\ pc = "handler"
  /\ req.endpoint = StreamEndpoint
  /\ IF apiKey
     THEN /\ upstream' = [state |-> "pending"]
          /\ upstreamCalls' = upstreamCalls + 1
          /\ pc' = "await"
          /\ UNCHANGED res
     ELSE /\ IF req.body.payload = "undefined"
             THEN pc' = "rejected" /\ UNCHANGED res
             ELSE pc' = "timer" /\ res' = Write(res, "analysis")
          /\ UNCHANGED <<upstream, upstreamCalls>>
  /\ UNCHANGED <<fnVars, relayVars, req, apiKey, scores>>

\* the callback of setTimeout in the branch without API key
StreamTimer ==
  /\ pc = "timer"
  /\ res' = End(Write(res, "updatedAnalysis"))
  /\ pc' = "done"
  /\ UNCHANGED <<fnVars, relayVars, req, apiKey, scores, upstream, upstreamCalls>>

\* createChatCompletion resolves with a stream of chunks
StreamOpens ==
  /\ pc = "await"
  /\ req.endpoint = StreamEndpoint
  /\ upstream' = [state |-> "streaming", chunks |-> 0]
  /\ pc' = "streaming"
  /\ UNCHANGED <<fnVars, relayVars, req, apiKey, scores, res, upstreamCalls>>

\* createChatCompletion rejects
StreamRejects ==
  /\ pc = "await"
  /\ req.endpoint = StreamEndpoint
  /\ \E cause \in FailureCauses : upstream' = [state |-> "rejected", cause |-> cause]
  /\ res' = StreamCatch(res, req.body.payload)
  /\ pc' = StreamCatchPc(req.body.payload)
  /\ UNCHANGED <<fnVars, relayVars, req, apiKey, scores, upstreamCalls>>

\* one turn of the for await loop: a chunk with or without delta content
StreamChunk ==
  /\ pc = "streaming"
  /\ upstream.chunks < MaxChunks
  /\ upstream' = [state |-> "streaming", chunks |-> upstream.chunks + 1]
  /\ \E content \in {"", "text"} :
       res' = IF content # "" THEN Write(res, "content") ELSE res
  /\ UNCHANGED <<fnVars, relayVars, req, apiKey, pc, scores, upstreamCalls>>

\* the stream raises an error mid-way
StreamError ==
  /\ pc = "streaming"
  /\ upstream' = [state |-> "failed", chunks |-> upstream.chunks]
  /\ res' = StreamCatch(res, req.body.payload)
  /\ pc' = StreamCatchPc(req.body.payload)
  /\ UNCHANGED <<fnVars, relayVars, req, apiKey, scores, upstreamCalls>>

\* the stream is exhausted: the loop ends and streamAnalysis returns
StreamCompletes ==
  /\ pc = "streaming"
  /\ upstream' = [state |-> "completed", chunks |-> upstream.chunks]
  /\ pc' = "done"
  /\ UNCHANGED <<fnVars, relayVars, req, apiKey, scores, res, upstreamCalls>>

NextStream ==
  \/ ValidateToken
  \/ StreamHandler
  \/ StreamTimer
  \/ StreamOpens
  \/ StreamRejects
  \/ StreamChunk
  \/ StreamError
  \/ StreamCompletes

SpecStream == InitStream /\ [][NextStream]_vars

(***************************************************************************)
(* Every endpoint that calls the LLM service, one request at a time.       *)
(***************************************************************************)
InitHttp == InitReport \/ InitLlm \/ InitStream

NextHttp ==
  \/ ValidateToken
  \/ ValidateReportData
  \/ GenerateReport
  \/ CompletionResolves
  \/ CompletionRejects
  \/ LlmHandler
  \/ LlmResolves
  \/ LlmRejects
  \/ StreamHandler
  \/ StreamTimer
  \/ StreamOpens
  \/ StreamRejects
  \/ StreamChunk
  \/ StreamError
  \/ StreamCompletes

SpecHttp == InitHttp /\ [][NextHttp]_vars

(***************************************************************************)
(* The endpoints that answer with one JSON document: the report route and  *)
(* the four /api/llm handlers.  Each step is a synchronous stretch of a    *)
(* handler, which Node runs once it is due, or the settling of the         *)
(* completion request, which resolves or rejects: the steps are weakly     *)
(* fair.                                                                   *)
(***************************************************************************)
InitJson == InitReport \/ InitLlm

NextJson ==
  \/ ValidateToken
  \/ ValidateReportData
  \/ GenerateReport
  \/ CompletionResolves
  \/ CompletionRejects
  \/ LlmHandler
  \/ LlmResolves
  \/ LlmRejects

FairSpecJson == InitJson /\ [][NextJson]_vars /\ WF_vars(NextJson)

(***************************************************************************)
(* io.on('connection'): the session events of the real-time channel.       *)
(***************************************************************************)
InitRelay ==
  /\ FnIdle
  /\ HttpIdle
  /\ RelayIdle

\* the sender included, as io.to(room) would
BroadcastToAll(sender, id) == {y \in Sockets : id \in rooms[y]}

\* socket.to(`session_${id}`): the sockets in the room, the sender excepted
BroadcastTo(sender, id) == {y \in Sockets : id \in rooms[y] /\ y # sender}

\* a client connects
Connect(x) ==
  /\ connected[x] = "new"
  /\ connected' = [connected EXCEPT ![x] = "connected"]
  /\ UNCHANGED <<fnVars, httpVars, rooms, inbox, relayed, joined>>

\* socket.on('session:start'): join the room of the session
SessionStart(x, id) ==
  /\ connected[x] = "connected"
  /\ rooms' = [rooms EXCEPT ![x] = @ \cup {id}]
  /\ joined' = [joined EXCEPT ![x] = @ \cup {id}]
  /\ UNCHANGED <<fnVars, httpVars, connected, inbox, relayed>>

\* socket.on('session:update'): relay the update to the room
SessionUpdate(x, id) ==
  /\ connected[x] = "connected"
  /\ relayed < MaxUpdates
  /\ relayed' = relayed + 1
  /\ inbox' = [y \in Sockets |->
                 IF y \in BroadcastTo(x, id)
                 THEN Append(inbox[y], [from |-> x, id |-> id, seq |-> relayed + 1])
                 ELSE inbox[y]]
  /\ UNCHANGED <<fnVars, httpVars, connected, rooms, joined>>

\* the socket.leave left out
SessionEndStaying(x, id) ==
  /\ connected[x] = "connected"
  /\ joined' = [joined EXCEPT ![x] = @ \ {id}]
  /\ UNCHANGED <<fnVars, httpVars, connected, rooms, inbox, relayed>>

\* socket.on('session:end'): leave the room of the session
SessionEnd(x, id) ==
  /\ connected[x] = "connected"
  /\ rooms' = [rooms EXCEPT ![x] = @ \ {id}]
  /\ joined' = [joined EXCEPT ![x] = @ \ {id}]
  /\ UNCHANGED <<fnVars, httpVars, connected, inbox, relayed>>

\* socket.on('disconnect'): the socket has left all its rooms
Disconnect(x) ==
  /\ connected[x] = "connected"
  /\ connected' = [connected EXCEPT ![x] = "disconnected"]
  /\ rooms' = [rooms EXCEPT ![x] = {}]
  /\ joined' = [joined EXCEPT ![x] = {}]
  /\ UNCHANGED <<fnVars, httpVars, inbox, relayed>>

NextRelay ==
  \/ \E x \in Sockets : Connect(x)
  \/ \E x \in Sockets, id \in SessionIds : SessionStart(x, id)
  \/ \E x \in Sockets, id \in SessionIds : SessionUpdate(x, id)
  \/ \E x \in Sockets, id \in SessionIds : SessionEnd(x, id)
  \/ \E x \in Sockets : Disconnect(x)

SpecRelay == InitRelay /\ [][NextRelay]_vars

(***************************************************************************)
(* Properties of the real-time channel (SpecRelay).                        *)
(***************************************************************************)
\* x sent a session:update for id that arrived as update number n, and every
\* socket got it exactly when it is another socket that has joined id and
\* not left it
RelayedExactly(x, id, n) ==
  \A y \in Sockets :
    inbox'[y] = IF y # x /\ id \in joined[y]
                THEN Append(inbox[y], [from |-> x, id |-> id, seq |-> n])
                ELSE inbox[y]

\* C12: each session:update that arrives is delivered as session:updated to
\* exactly the other sockets that joined its group and have not left it,
\* never to the sender or to another group, behind everything delivered
\* before; nothing else changes what a socket has received.
C12_RelayToGroup ==
  [][ IF relayed' # relayed
      THEN /\ relayed' = relayed + 1
           /\ \E x \in Sockets, id \in SessionIds : RelayedExactly(x, id, relayed')
      ELSE inbox' = inbox ]_vars

C12_Witness ==
  /\ relayed = 2
  /\ Len(inbox["s2"]) = 2
  /\ inbox["s2"][1] = [from |-> "s1", id |-> "a", seq |-> 1]
  /\ inbox["s2"][2] = [from |-> "s3", id |-> "a", seq |-> 2]
  /\ inbox["s1"] = <<>>
  /\ inbox["s3"] = <<>>
  /\ joined["s3"] = {"b"}
  /\ joined["s1"] = {}

(***************************************************************************)
(* Properties of the request handlers.                                     *)
(***************************************************************************)
ReportGroups ==
  {"patientInfo", "scores", "interpretations", "observations", "recommendations",
   "redFlags", "timestamp"}

\* the response says that fallback content was used
Degraded(json) == "error" \in DOMAIN json \/ "degraded" \in DOMAIN json

\* C1: every validated generate-report request whose completion request
\* failed is still answered 200 (never 500) with a report carrying patient
\* info, scores, interpretations, generated content and timestamp, and the
\* response is flagged as degraded.
C1_ReportAlways200 ==
  (req.endpoint = ReportEndpoint /\ pc = "done" /\ upstream.state = "rejected") =>
    /\ res.sent
    /\ res.status = 200
    /\ "report" \in DOMAIN res.json
    /\ ReportGroups \subseteq DOMAIN res.json.report
    /\ Degraded(res.json)

\* C2: for a stream request that carries a context, once streamAnalysis has
\* finished, whether the credential was missing, the stream completed or it
\* failed, the response has been ended and nothing was written after its end.
C2_StreamClosed ==
  (req.endpoint = StreamEndpoint /\ req.authorized /\ req.body.payload = "object"
     /\ pc \in {"done", "rejected"}) =>
    res.ended /\ ~res.writeAfterEnd

\* the upstream could not be used: no credential, or the request failed
UpstreamFailed == ~apiKey \/ upstream.state = "rejected"

\* C3: on any upstream failure, a missing credential included, the four JSON
\* endpoints answer 200 with the locally computed fallback and a note that
\* degraded mode was used.
C3_FallbackWithNote ==
  (req.endpoint \in LlmEndpoints /\ pc = "done" /\ req.authorized /\ UpstreamFailed) =>
    /\ res.sent
    /\ res.status = 200
    /\ res.json.from = FallbackFunction(req.endpoint)
    /\ Degraded(res.json)

\* testResults or patientInfo is absent, or patientInfo lacks one of id, name,
\* age, gender
Incomplete(body) ==
  \/ body.testResults.kind = "undefined"
  \/ body.patientInfo.kind = "undefined"
  \/ \E v \in {body.patientInfo.id, body.patientInfo.name, body.patientInfo.age,
               body.patientInfo.gender} : v = "undefined"

\* testResults and patientInfo are there and id, name, age and gender all
\* have a (truthy) value
Complete(body) ==
  /\ body.testResults.kind = "object"
  /\ body.patientInfo.kind = "object"
  /\ \A v \in {body.patientInfo.id, body.patientInfo.name, body.patientInfo.age,
               body.patientInfo.gender} : ~Falsy(v)

\* C4: past validation, a generate-report request that lacks testResults,
\* patientInfo or one of id, name, age, gender has been answered 400 with no
\* scores computed and no completion requested, and a request that has them
\* all has not been answered 400.
C4_IncompleteRejected ==
  (req.endpoint = ReportEndpoint /\ req.authorized
     /\ pc \notin {"validateToken", "validateReportData"}) =>
    /\ Incomplete(req.body) =>
         res.sent /\ res.status = 400 /\ scores = NoScores /\ upstreamCalls = 0
    /\ Complete(req.body) => ~(res.sent /\ res.status = 400)

\* 4 emotion trials with 3 correct, valid reaction times 250, 300, 600 and 5
\* pattern trials with 4 correct
ScenarioResults ==
  [kind |-> "object", emotionTest |-> Arr(Correct(3, 4)),
   reactionTest |-> Arr(<<[valid |-> TRUE, reactionTime |-> 250],
                          [valid |-> TRUE, reactionTime |-> 300],
                          [valid |-> TRUE, reactionTime |-> 600]>>),
   patternTest |-> Arr(Correct(4, 5))]

ReportReturned ==
  req.endpoint = ReportEndpoint /\ res.sent /\ res.status = 200

\* C11: in every report returned, whatever the completion text, scores are
\* the three scoring functions applied to the request's testResults and
\* interpretations the interpretation functions applied to those scores; the
\* scenario of 3/4, (250, 300, 600) and 4/5 gives 75, 383, 80 and the tiers
\* moderate, moderate, strong.
C11_ScoresFromTestResults ==
  ReportReturned =>
    LET t == req.body.testResults
        r == res.json.report
    IN /\ r.scores = [emotionScore |-> calculateEmotionScore(t.emotionTest),
                      reactionScore |-> calculateReactionScore(t.reactionTest),
                      patternScore |-> calculatePatternScore(t.patternTest)]
       /\ r.interpretations =
            [emotionTest |-> interpretEmotionScore(r.scores.emotionScore),
             reactionTest |-> interpretReactionScore(r.scores.reactionScore),
             patternTest |-> interpretPatternScore(r.scores.patternScore)]
       /\ t = ScenarioResults =>
            /\ r.scores = [emotionScore |-> Num(75), reactionScore |-> Num(383),
                           patternScore |-> Num(80)]
            /\ r.interpretations =
                 [emotionTest |-> "Moderate emotion recognition abilities",
                  reactionTest |-> "Moderate reaction time",
                  patternTest |-> "Strong pattern recognition and memory abilities"]

C11_Witness ==
  /\ ReportReturned
  /\ req.body.testResults = ScenarioResults
  /\ upstream.state = "resolved"
  /\ upstream.content = Str(<<"w1", "NL", "obs">>)
  /\ res.json.report.scores.reactionScore = Num(383)

\* C13: a request causes at most one completion request to the LLM service,
\* on every endpoint; once that request has failed the handler is over (the
\* fallback or the error has been decided) and no second one is issued.
C13_AtMostOneUpstreamCall ==
  /\ upstreamCalls <= 1
  /\ upstream.state # "none" => upstreamCalls = 1
  /\ upstream.state \in {"rejected", "failed"} => pc \in {"done", "rejected"}

C13_Witness ==
  /\ req.endpoint \in LlmEndpoints
  /\ upstream.state = "rejected"
  /\ upstreamCalls = 1
  /\ pc = "done"
  /\ res = FallbackResponse(req.endpoint)

\* C17: every request to the report route or to one of the four /api/llm
\* JSON handlers is eventually answered, whatever its payload and whether
\* the completion resolves with JSON, resolves with other text or fails; the
\* response once sent is never sent again or changed, and no handler ends in
\* an error nobody catches.
C17_ExactlyOneResponse ==
  /\ <>(pc = "done" /\ res.sent /\ res.ended)
  /\ [][res.sent => res' = res]_vars
  /\ [](pc # "rejected")

C17_Witness ==
  /\ req.endpoint = ReportEndpoint
  /\ upstream.state = "rejected"
  /\ pc = "done"
  /\ res = ReportFailed

(***************************************************************************)
(* Properties of the helper functions (SpecFn).                            *)
(***************************************************************************)
ParseReturned == call.fn = "parseGeneratedReport" /\ ret.done

NoHeading(toks) == \A i \in 1..Len(toks) : toks[i] \notin Headings

NoKeyword(toks) == \A i \in 1..Len(toks) : toks[i] \notin {"obs", "rec", "flag"}

AllEmpty(r) ==
  ~r.raised /\ r.observations = <<>> /\ r.recommendations = <<>> /\ r.redFlags = <<>>

\* C5 as stated: a text without a numbered heading always parses to three
\* empty lists, whatever other words it contains.
C5_NoHeadingAllEmpty ==
  (ParseReturned /\ call.arg.kind = "string" /\ NoHeading(call.arg.toks))
    => AllEmpty(ret.val)

\* C5 amended: a text without a numbered heading and without any of the
\* keywords 'observation', 'recommend', 'red flag' parses to three empty lists
\* and does not raise.
C5_NoHeadingNoKeywordAllEmpty ==
  (ParseReturned /\ call.arg.kind = "string" /\ NoHeading(call.arg.toks)
     /\ NoKeyword(call.arg.toks))
    => AllEmpty(ret.val)

C5_Witness ==
  /\ ParseReturned
  /\ call.arg = Str(<<"w1", "NL", "w1">>)
  /\ AllEmpty(ret.val)

\* the body behind the k-th heading of a six-section text
SectionBody(toks, k) == SplitAt(toks, Headings)[k + 1]

\* the non-blank lines of a body, trimmed
BodyLines(body) ==
  LET lines == SplitAt(body, {"NL"})
      kept == SelectSeq(lines, LAMBDA l : \E i \in 1..Len(l) : l[i] \notin WhiteSpace)
  IN [i \in 1..Len(kept) |-> Trim(kept[i])]

WellFormedCall ==
  ParseReturned /\ call.arg.kind = "string" /\ call.arg.toks \in WellFormedTexts

\* C6 as stated: a well-formed six-section text yields at least one
\* observation and at least one recommendation, and the recommendations are
\* the lines of the RECOMMENDATIONS body.
C6_WellFormedPopulates ==
  WellFormedCall =>
    /\ ~ret.val.raised
    /\ Len(ret.val.observations) >= 1
    /\ Len(ret.val.recommendations) >= 1
    /\ ret.val.recommendations = BodyLines(SectionBody(call.arg.toks, 5))

\* the RECOMMENDATIONS body lacks 'observation' and no body of sections 1, 3,
\* 4 and 6 contains 'recommend'
RecommendationsUnambiguous(toks) ==
  /\ ~Includes(SectionBody(toks, 5), "obs")
  /\ \A k \in {1, 3, 4, 6} : ~Includes(SectionBody(toks, k), "rec")

\* C6 amended: a well-formed six-section text yields at least one observation;
\* when the RECOMMENDATIONS body does not contain 'observation' and no body of
\* sections 1, 3, 4, 6 contains 'recommend', the recommendations are exactly
\* the lines of the RECOMMENDATIONS body, at least one.
C6_WellFormedPopulatesUnambiguous ==
  WellFormedCall =>
    /\ ~ret.val.raised
    /\ Len(ret.val.observations) >= 1
    /\ RecommendationsUnambiguous(call.arg.toks) =>
         /\ Len(ret.val.recommendations) >= 1
         /\ ret.val.recommendations = BodyLines(SectionBody(call.arg.toks, 5))

C6_Witness ==
  /\ ParseReturned
  /\ call.arg = Str(SixSections([k \in 1..6 |->
                     IF k = 5 THEN <<"NL", "w2", "NL", "SP", "w1", "NL">>
                     ELSE <<"NL", "w1", "NL">>]))
  /\ ret.val.recommendations = << <<"w2">>, <<"w1">> >>
  /\ Len(ret.val.observations) = 1

\* the non-blank fragments between the headings of a text
Fragments(toks) ==
  SelectSeq(SplitAt(toks, Headings), LAMBDA f : \E i \in 1..Len(f) : f[i] \notin WhiteSpace)

\* the keywords a fragment contains
Keywords(f) == {kw \in {"obs", "rec", "flag"} : \E i \in 1..Len(f) : f[i] = kw}

RECURSIVE Flatten(_)
Flatten(ss) == IF ss = <<>> THEN <<>> ELSE Head(ss) \o Flatten(Tail(ss))

\* the lines of the fragments of one class, in fragment order
LinesOf(frags, classes, class) ==
  Flatten([k \in 1..Len(frags) |->
             IF classes[k] = class THEN BodyLines(frags[k]) ELSE <<>>])

\* the keyword decides whenever there is one, the index otherwise
KeywordFirstClass(f, index) ==
  IF "obs" \in Keywords(f) THEN "observations"
  ELSE IF "rec" \in Keywords(f) THEN "recommendations"
  ELSE IF "flag" \in Keywords(f) THEN "redFlags"
  ELSE IF index = 1 THEN "observations"
  ELSE IF index = 4 THEN "recommendations"
  ELSE IF index = 3 THEN "redFlags"
  ELSE "none"

\* observations by keyword or index 1; failing that recommendations by
\* keyword or index 4; failing that red flags by keyword or index 3
PrecedenceClass(f, index) ==
  IF "obs" \in Keywords(f) \/ index = 1 THEN "observations"
  ELSE IF "rec" \in Keywords(f) \/ index = 4 THEN "recommendations"
  ELSE IF "flag" \in Keywords(f) \/ index = 3 THEN "redFlags"
  ELSE "none"

\* the result r holds the lines of each fragment in the list of its class
\* and in no other list
RoutedAs(r, frags, classes) ==
  /\ LET lines == LinesOf(frags, classes, "observations")
     IN r.observations =
          [i \in 1..Len(lines) |->
             [category |-> "Clinical Observation", details |-> lines[i]]]
  /\ r.recommendations = LinesOf(frags, classes, "recommendations")
  /\ \A i \in 1..Len(r.redFlags) :
       \E k \in 1..Len(frags) :
         /\ classes[k] = "redFlags"
         /\ \E j \in 1..Len(BodyLines(frags[k])) : BodyLines(frags[k])[j] = r.redFlags[i]
  /\ r.redFlags = <<>> <=> \A k \in 1..Len(frags) : classes[k] # "redFlags"

ParsedString == ParseReturned /\ call.arg.kind = "string"

\* C15 as stated: a fragment with a keyword is routed by the keyword whatever
\* its index ('recommend' to recommendations, 'red flag' to redFlags), the
\* index decides only for a fragment without keyword, and each fragment goes
\* to at most one list.
C15_KeywordBeforeIndex ==
  LET frags == Fragments(call.arg.toks)
  IN (ParsedString /\ \A k \in 1..Len(frags) : Cardinality(Keywords(frags[k])) <= 1)
       => RoutedAs(ret.val, frags,
                   [k \in 1..Len(frags) |-> KeywordFirstClass(frags[k], k - 1)])

\* C15 as amended: a fragment goes to observations when it contains
\* 'observation' or has index 1; failing that to recommendations when it
\* contains 'recommend' or has index 4; failing that to redFlags when it
\* contains 'red flag' or has index 3; and to no list otherwise.  Each
\* fragment goes to at most one list.
C15_TestsInOrder ==
  LET frags == Fragments(call.arg.toks)
  IN ParsedString
       => RoutedAs(ret.val, frags,
                   [k \in 1..Len(frags) |-> PrecedenceClass(frags[k], k - 1)])

C15_Witness ==
  /\ ParseReturned
  /\ call.arg = Str(<<"w1", "H4", "rec">>)
  /\ ret.val.observations =
       << [category |-> "Clinical Observation", details |-> <<"rec">>] >>
  /\ ret.val.recommendations = <<>>
  /\ ret.val.redFlags = <<>>

\* C16: recommendations holds every non-blank line of every fragment routed
\* to recommendations and redFlags every non-blank line of every fragment
\* routed to redFlags, in fragment order: a later fragment of a class does
\* not remove the lines of an earlier one.
C16_LinesOfEveryFragment ==
  LET frags == Fragments(call.arg.toks)
      classes == [k \in 1..Len(frags) |-> PrecedenceClass(frags[k], k - 1)]
  IN ParsedString =>
       /\ ret.val.recommendations = LinesOf(frags, classes, "recommendations")
       /\ ret.val.redFlags = LinesOf(frags, classes, "redFlags")

\* C7: for every completion content, a string or null, parseGeneratedReport
\* returns without raising.
C7_ParserNeverRaises == ParseReturned => ~ret.val.raised

\* number of trials with isCorrect
CountCorrect(items) == Cardinality({i \in 1..Len(items) : items[i].isCorrect})

\* r is an integer nearest to x/n, n > 0
IsRounded(r, x, n) == 2 * (r * n - x) <= n /\ 2 * (x - r * n) <= n

\* C8: calculateEmotionScore and calculatePatternScore return an integer in
\* 0..100 equal to round(100 * correct / trials), 0 for the empty or absent
\* sequence, 100 when all are correct and 0 when none is.
C8_PercentScore ==
  (call.fn \in {"calculateEmotionScore", "calculatePatternScore"} /\ ret.done) =>
    LET items == call.arg.items
        n == Len(items)
        c == CountCorrect(items)
        r == ret.val
    IN /\ ~r.nan
       /\ r.n \in 0..100
       /\ (call.arg.kind = "undefined" \/ n = 0) => r.n = 0
       /\ n > 0 => IsRounded(r.n, 100 * c, n)
       /\ (n > 0 /\ c = n) => r.n = 100
       /\ (n > 0 /\ c = 0) => r.n = 0

C8_Witness ==
  /\ call.fn = "calculatePatternScore"
  /\ ret.done
  /\ call.arg = Arr(<<[isCorrect |-> TRUE], [isCorrect |-> FALSE], [isCorrect |-> TRUE]>>)
  /\ ret.val = Num(67)

RECURSIVE SumOver(_, _)
\* the sum of reactionTime over the trials at the positions idx
SumOver(items, idx) ==
  IF idx = {} THEN 0
  ELSE LET i == CHOOSE j \in idx : TRUE
       IN items[i].reactionTime + SumOver(items, idx \ {i})

\* C9: with at least one valid trial, calculateReactionScore is the mean of
\* reactionTime over exactly the valid trials, rounded to the nearest integer.
C9_ReactionMeanOfValid ==
  (call.fn = "calculateReactionScore" /\ ret.done) =>
    LET items == call.arg.items
        validIdx == {i \in 1..Len(items) : items[i].valid}
        k == Cardinality(validIdx)
    IN k >= 1 =>
         /\ ~ret.val.nan
         /\ IsRounded(ret.val.n, SumOver(items, validIdx), k)

C9_Witness ==
  /\ call.fn = "calculateReactionScore"
  /\ ret.done
  /\ call.arg = Arr(<<[valid |-> TRUE, reactionTime |-> 200],
                      [valid |-> TRUE, reactionTime |-> 400],
                      [valid |-> FALSE, reactionTime |-> 9999]>>)
  /\ ret.val = Num(300)

ReactionReturned == call.fn = "calculateReactionScore" /\ ret.done

\* no trial of the array has valid = true
NoValidTrial(reactionTest) ==
  \A i \in 1..Len(reactionTest.items) : ~reactionTest.items[i].valid

\* C14 as stated: for every reaction sequence without a valid trial, the
\* empty sequence included, calculateReactionScore returns NaN, never 0 or
\* another integer.
C14_NoValidTrialNaN ==
  (ReactionReturned /\ call.arg.kind = "array" /\ NoValidTrial(call.arg)) =>
    ret.val = NaN

\* C14 as amended: for every non-empty reaction sequence without a valid
\* trial calculateReactionScore returns NaN, never a number; for the empty
\* sequence and for an absent one it returns 0.
C14_NonEmptyNoValidTrialNaN ==
  ReactionReturned =>
    IF call.arg.kind = "undefined" THEN ret.val = Num(0)
    ELSE IF Len(call.arg.items) = 0 THEN ret.val = Num(0)
    ELSE NoValidTrial(call.arg) => ret.val = NaN

C14_Witness ==
  /\ ReactionReturned
  /\ call.arg = Arr(<<[valid |-> FALSE, reactionTime |-> 250],
                      [valid |-> FALSE, reactionTime |-> 9999]>>)
  /\ ret.val = NaN

\* C10: emotion and pattern scores map to the strong tier from 80 up, the
\* moderate tier for 60..79 and the difficulty tier below 60; reaction scores
\* map to the quick tier up to 300, the moderate tier for 301..500 and the
\* delayed tier above 500.
C10_Tiers ==
  ret.done =>
    /\ call.fn = "interpretEmotionScore" =>
         ret.val = IF call.arg.n >= 80 THEN "Strong emotion recognition abilities"
                   ELSE IF call.arg.n >= 60 THEN "Moderate emotion recognition abilities"
                   ELSE "Difficulty with emotion recognition, further assessment recommended"
    /\ call.fn = "interpretPatternScore" =>
         ret.val = IF call.arg.n >= 80 THEN "Strong pattern recognition and memory abilities"
                   ELSE IF call.arg.n >= 60 THEN "Moderate pattern recognition abilities"
                   ELSE "Difficulty with pattern recognition, further assessment recommended"
    /\ (call.fn = "interpretReactionScore" /\ ~call.arg.nan) =>
         ret.val = IF call.arg.n <= 300 THEN "Quick reaction time, within typical range"
                   ELSE IF call.arg.n <= 500 THEN "Moderate reaction time"
                   ELSE "Delayed reaction time, may indicate attention processing differences"

C10_Witness ==
  /\ call = [fn |-> "interpretEmotionScore", arg |-> Num(80)]
  /\ ret = Returned("Strong emotion recognition abilities")

====
